---- MODULE Spec2Model ----
(***************************************************************************)
(* Model of the technician-booking front end: the booking status deriver   *)
(* (three copies), the typed HTTP client (two copies: the unwrapped one of *)
(* services/bookingApi.ts and the enveloped one that follows the theme in  *)
(* theme/index.ts), the chat component (two copies) with its transcript,   *)
(* App with its analytics drawer, and the booking list with its search.    *)
(***************************************************************************)
EXTENDS Integers, Sequences, FiniteSets, TLC

(***************************************************************************)
(* Bounds of the model.                                                    *)
(***************************************************************************)
\* instants are milliseconds 0..MaxT
MaxT == 2
\* longest booking list a response carries
MaxList == 2
\* longest text typed into the chat input, in characters
MaxInput == 2
\* longest chat transcript
MaxMsgs == 5
\* the chat reads Date.now() in the milliseconds 0..MaxNow after its mount
MaxNow == 3
\* runs of App's drawer effect that start a load
MaxLoads == 1

VARIABLES
  \* ---- status deriver (BookingEntry, memoized BookingEntry, BookingList chip)
  clock,        \* wall clock, the value new Date() reads
  booking,      \* the booking prop the three components render
  themeMode,    \* App's mode; a change yields a new theme object
  entry,        \* what BookingEntry.getStatusInfo returned at the last render
  memo,         \* what the useMemo callback returned when it last ran
  chip,         \* what BookingList.getStatusChip returned at the last render
  \* ---- BookingList
  listBookings,     \* the bookings state
  listFiltered,     \* the filteredBookings state
  listLoading,      \* the isLoading state
  listError,        \* the error state
  searchQuery,      \* the searchQuery state
  listPending,      \* fetchBookings calls whose request is outstanding
  listHooks,        \* hooks the last render of BookingList called
  listView,         \* what BookingList shows
  \* ---- HTTP client
  phase,        \* "idle" | "requesting" | "inflight" | "settled"
  request,      \* the operation being awaited
  httpCount,    \* HTTP requests dispatched by the current call
  response,     \* how axios settled the request
  outcome,      \* what the operation handed to its caller
  stored,       \* the booking the remote service holds for id "1"
  authToken,    \* localStorage's item 'authToken'
  consoleLog,   \* what the interceptors wrote to the console during the current call
  \* ---- chat component
  chatVariant,  \* which copy of ChatInterface is mounted
  welcomeMessageShown, \* the ref that guards the welcome message
  messages,     \* the transcript
  stamps,       \* the id and the timestamp of each message of the transcript
  inputValue,   \* the text field
  isLoading,    \* the loading flag
  sendPc,       \* where the running handleSend is suspended
  cmdResult,    \* the command result handleSend holds across its second await
  lastSend,     \* handleSend's outcome, while nothing was typed since it ran
  netCount,     \* requests the chat has dispatched
  analysisData, \* App's analytics state, set through onAnalysisUpdate
  appLoading,   \* App's isLoading flag
  \* ---- App
  isDrawerOpen, \* App's drawer flag
  loads,        \* the Promise.all of each run of the drawer effect
  pending,      \* the requests that are outstanding, each with the user action it belongs to
  completed     \* the analytics loads that have completed, in order, with what each delivered

listVars   == <<listBookings, listFiltered, listLoading, listError, searchQuery,
                listPending, listHooks, listView>>
statusVars == <<clock, booking, themeMode, entry, memo, chip, listVars>>
apiVars    == <<phase, request, httpCount, response, outcome, stored, authToken, consoleLog>>
appVars    == <<isDrawerOpen, loads, pending, completed>>
chatVars   == <<chatVariant, welcomeMessageShown, messages, stamps, inputValue, isLoading, sendPc, cmdResult,
                lastSend, netCount, analysisData, appLoading, appVars>>
vars       == <<statusVars, apiVars, chatVars>>

(***************************************************************************)
(* Timestamps.  A timestamp travels as a string; the model keeps of a      *)
(* string its format and the digits it carries.                            *)
(*   "iso"    YYYY-MM-DDTHH:mm:ss.sssZ, v = the millisecond (canonical)    *)
(*   "offset" ISO-8601 with a numeric zone offset: v = the local wall      *)
(*            time, off = the offset, the instant is v - off               *)
(*   "other"  a format the Date constructor does not parse (for instance   *)
(*            DD/MM/YYYY HH:mm); v = the millisecond the sender means      *)
(***************************************************************************)
Instants == 0..MaxT

IsoString(t) == [fmt |-> "iso", v |-> t, off |-> 0]

OffsetString(t, o) == [fmt |-> "offset", v |-> t + o, off |-> o]

OtherString(t) == [fmt |-> "other", v |-> t, off |-> 0]

\* every string of every format that denotes the instant t
StringsOf(t) == {IsoString(t), OffsetString(t, 1), OtherString(t)}

TimeStrings == UNION {StringsOf(t) : t \in Instants}

\* the instant the sender of a string means by it
Denotes(s) == IF s.fmt = "offset" THEN s.v - s.off ELSE s.v

\* a Date object: its time value, or Invalid Date (time value NaN)
InvalidDate == [valid |-> FALSE, t |-> 0]

DateOf(t) == [valid |-> TRUE, t |-> t]

\* new Date(string)
NewDate(s) ==
  CASE s.fmt = "iso"    -> DateOf(s.v)
    [] s.fmt = "offset" -> DateOf(s.v - s.off)
    [] OTHER            -> InvalidDate

\* a < b and a > b on Date objects: false as soon as one side is NaN
DateLt(a, b) == a.valid /\ b.valid /\ a.t < b.t

DateGt(a, b) == a.valid /\ b.valid /\ a.t > b.t

\* Date.prototype.toISOString: the canonical string, RangeError on Invalid Date
ToISOString(d) ==
  IF d.valid THEN [threw |-> FALSE, value |-> IsoString(d.t)]
             ELSE [threw |-> TRUE,  value |-> IsoString(0)]

toISODropsOffset(date) ==
  IF date.fmt = "other" THEN [threw |-> TRUE, value |-> IsoString(0)]
                        ELSE [threw |-> FALSE, value |-> IsoString(date.v)]

\* toISO(date) == new Date(date).toISOString()
toISO(date) == ToISOString(NewDate(date))

IsCanonical(s) == s.fmt = "iso"

(***************************************************************************)
(* JavaScript values, as far as the client looks into them.  Every value   *)
(* is a record tagged with its type; a text is a sequence of tokens.       *)
(***************************************************************************)
Undefined == [t |-> "undefined"]

Null == [t |-> "null"]

Str(text) == [t |-> "string", s |-> text]

Arr(items) == [t |-> "array", items |-> items]

EmptyObject == [t |-> "object"]

\* the Booking interface; an id n stands for the string "b<n>"
BookingObject(id, start, end) ==
  [t |-> "object", id |-> id, start_time |-> start, end_time |-> end]

\* the enveloped client's response shape { success, data }
Envelope(payload) == [t |-> "object", success |-> TRUE, data |-> payload]

\* JavaScript truthiness of a response body
Truthy(v) ==
  CASE v.t \in {"undefined", "null"} -> FALSE
    [] v.t = "string"                -> v.s # <<>>
    [] OTHER                         -> TRUE

\* typeof v === 'object' (of a truthy v)
TypeofObject(v) == v.t \in {"object", "array"}

\* 'detail' in v
HasDetail(v) == v.t = "object" /\ "detail" \in DOMAIN v

\* the string a template literal makes of a value
ToText(v) ==
  CASE v.t = "string"    -> v.s
    [] v.t = "undefined" -> <<"undefined">>
    [] v.t = "null"      -> <<"null">>
    [] v.t = "array"     -> IF v.items = <<>> THEN <<>> ELSE <<"[object Object]">>
    [] OTHER             -> <<"[object Object]">>

\* JSON.stringify of the bodies the model's server sends
JSONstringify(v) ==
  CASE v.t = "array" /\ v.items = <<>>         -> <<"[]">>
    [] v.t = "object" /\ DOMAIN v = {"t"}      -> <<"{}">>
    [] v.t = "object" /\ "error" \in DOMAIN v  -> <<"{\"error\":\"">> \o v.error.s \o <<"\"}">>
    [] OTHER                                   -> <<"{...}">>

\* v.data: TypeError on undefined and null, undefined when there is no such property
GetData(v) ==
  IF v.t \in {"undefined", "null"} THEN [threw |-> TRUE, value |-> Undefined]
  ELSE IF v.t = "object" /\ "data" \in DOMAIN v THEN [threw |-> FALSE, value |-> v.data]
  ELSE [threw |-> FALSE, value |-> Undefined]

(***************************************************************************)
(* Errors.                                                                 *)
(***************************************************************************)
NoStatus == [has |-> FALSE, code |-> 0]

StatusOf(n) == [has |-> TRUE, code |-> n]

\* new BookingApiError(message, status, originalError)
BookingApiError(message, status) ==
  [name |-> "BookingApiError", message |-> message, status |-> status]

NoError == [name |-> "none", message |-> <<>>, status |-> NoStatus]

\* an error of the JavaScript runtime raised inside a try block
JsError(name) ==
  [kind |-> "jsError", name |-> name, hasResponse |-> FALSE, status |-> 0,
   data |-> Undefined, message |-> <<name>>]

\* what an operation hands to its caller
Returned(value) == [kind |-> "returned", value |-> value, error |-> NoError]

Threw(error) == [kind |-> "threw", value |-> Undefined, error |-> error]

\* an error that leaves an operation without passing through handleAxiosError
Escapes(e) == [name |-> e.name, message |-> e.message, status |-> NoStatus]

ApiRequestFailed == "API request failed: "

DefaultDetail == <<"An unexpected error occurred. Please try again later.">>

Unexpected == <<"An unexpected error occurred.">>

\* axios.isAxiosError(error)
isAxiosError(error) == error.kind = "rejected"

handleAxiosErrorNoDetail(error) ==
  IF isAxiosError(error)
  THEN LET status == IF error.hasResponse THEN StatusOf(error.status) ELSE NoStatus
           detail ==
             IF error.hasResponse /\ Truthy(error.data)
             THEN IF error.data.t = "string" THEN error.data.s
                  ELSE JSONstringify(error.data)
             ELSE IF error.message # <<>> THEN error.message
             ELSE DefaultDetail
       IN  BookingApiError(<<ApiRequestFailed>> \o detail, status)
  ELSE BookingApiError(Unexpected, NoStatus)

handleAxiosErrorTransportFirst(error) ==
  IF isAxiosError(error)
  THEN LET status == IF error.hasResponse THEN StatusOf(error.status) ELSE NoStatus
           detail ==
             IF error.message # <<>> THEN error.message
             ELSE IF error.hasResponse /\ Truthy(error.data)
             THEN IF error.data.t = "string" THEN error.data.s
                  ELSE IF TypeofObject(error.data) /\ HasDetail(error.data)
                       THEN ToText(error.data.detail)
                  ELSE JSONstringify(error.data)
             ELSE DefaultDetail
       IN  BookingApiError(<<ApiRequestFailed>> \o detail, status)
  ELSE BookingApiError(Unexpected, NoStatus)

\* handleAxiosError of services/bookingApi.ts: the error it throws
handleAxiosError(error) ==
  IF isAxiosError(error)
  THEN LET status == IF error.hasResponse THEN StatusOf(error.status) ELSE NoStatus
           detail ==
             IF error.hasResponse /\ Truthy(error.data)
             THEN IF error.data.t = "string" THEN error.data.s
                  ELSE IF TypeofObject(error.data) /\ Truthy(error.data) /\ HasDetail(error.data)
                       THEN ToText(error.data.detail)
                  ELSE JSONstringify(error.data)
             ELSE IF error.message # <<>> THEN error.message
             ELSE DefaultDetail
       IN  BookingApiError(<<ApiRequestFailed>> \o detail, status)
  ELSE BookingApiError(Unexpected, NoStatus)

handleAxiosErrorEnvelopedNoMessage(error) ==
  IF isAxiosError(error)
  THEN LET status == IF error.hasResponse THEN StatusOf(error.status) ELSE NoStatus
           detail ==
             IF error.hasResponse /\ Truthy(error.data)
             THEN IF error.data.t = "string" THEN error.data.s
                  ELSE IF TypeofObject(error.data) /\ HasDetail(error.data)
                       THEN ToText(error.data.detail)
                  ELSE JSONstringify(error.data)
             ELSE DefaultDetail
       IN  BookingApiError(<<ApiRequestFailed>> \o detail, status)
  ELSE BookingApiError(Unexpected, NoStatus)

\* handleAxiosError of the enveloped client: the error it throws
handleAxiosErrorEnveloped(error) ==
  IF isAxiosError(error)
  THEN LET status == IF error.hasResponse THEN StatusOf(error.status) ELSE NoStatus
           detail ==
             IF error.hasResponse /\ Truthy(error.data)
             THEN IF error.data.t = "string" THEN error.data.s
                  ELSE IF TypeofObject(error.data) /\ HasDetail(error.data)
                       THEN ToText(error.data.detail)
                  ELSE JSONstringify(error.data)
             ELSE IF error.message # <<>> THEN error.message
             ELSE DefaultDetail
       IN  BookingApiError(<<ApiRequestFailed>> \o detail, status)
  ELSE BookingApiError(Unexpected, NoStatus)

(***************************************************************************)
(* The status deriver, once per copy in the source.                        *)
(***************************************************************************)
Labels == {"Upcoming", "Completed", "In Progress"}

getStatusInfoSwapped(now, b) ==
  LET startTime == NewDate(b.start_time)
      endTime   == NewDate(b.end_time)
  IN  IF DateGt(now, endTime) THEN "Completed"
      ELSE IF DateLt(now, startTime) THEN "Upcoming"
      ELSE "In Progress"

\* BookingEntry.getStatusInfo
getStatusInfo(now, b) ==
  LET startTime == NewDate(b.start_time)
      endTime   == NewDate(b.end_time)
  IN  IF DateLt(now, startTime) THEN "Upcoming"
      ELSE IF DateGt(now, endTime) THEN "Completed"
      ELSE "In Progress"

getStatusInfoMemoStrict(now, b) ==
  LET startTime == NewDate(b.start_time)
      endTime   == NewDate(b.end_time)
  IN  IF DateLt(now, startTime) THEN "Upcoming"
      ELSE IF ~DateLt(now, endTime) THEN "Completed"
      ELSE "In Progress"

\* the callback of useMemo in the memoized BookingEntry
getStatusInfoMemo(now, b) ==
  LET startTime == NewDate(b.start_time)
      endTime   == NewDate(b.end_time)
  IN  IF DateLt(now, startTime) THEN "Upcoming"
      ELSE IF DateGt(now, endTime) THEN "Completed"
      ELSE "In Progress"

getStatusChipFlipped(now, b) ==
  LET startTime == NewDate(b.start_time)
      endTime   == NewDate(b.end_time)
  IN  IF DateLt(now, startTime) THEN "Upcoming"
      ELSE IF DateLt(now, endTime) THEN "Completed"
      ELSE "In Progress"

getStatusChipLate(now, b) ==
  LET startTime == NewDate(b.start_time)
      endTime   == NewDate(b.end_time)
  IN  IF ~DateGt(now, startTime) THEN "Upcoming"
      ELSE IF DateGt(now, endTime) THEN "Completed"
      ELSE "In Progress"

\* BookingList.getStatusChip (the label of the chip it returns)
getStatusChip(now, b) ==
  LET startTime == NewDate(b.start_time)
      endTime   == NewDate(b.end_time)
  IN  IF DateLt(now, startTime) THEN "Upcoming"
      ELSE IF DateGt(now, endTime) THEN "Completed"
      ELSE "In Progress"

\* nothing rendered yet
NotRendered == [now |-> 0, label |-> "none"]

\* the booking props: any two timestamps, in any order (the client enforces none)
BookingProps == [start_time : TimeStrings, end_time : TimeStrings]

\* one render of the three components at the current clock; the useMemo
\* callback runs only when one of its dependencies changed
RenderAll(b, depsChanged) ==
  /\ entry' = [now |-> clock, label |-> getStatusInfo(DateOf(clock), b)]
  /\ chip'  = [now |-> clock, label |-> getStatusChip(DateOf(clock), b)]
  /\ memo'  = IF depsChanged
              THEN [now |-> clock, label |-> getStatusInfoMemo(DateOf(clock), b)]
              ELSE memo

(***************************************************************************)
(* The parts of the state a specification does not exercise stay at rest.  *)
(***************************************************************************)
NoRequest ==
  [op |-> "none", variant |-> "none", method |-> "none", url |-> <<>>, arg |-> Undefined,
   headers |-> [Authorization |-> Undefined]]

NoResponse ==
  [kind |-> "none", hasResponse |-> FALSE, status |-> 0, data |-> Undefined,
   message |-> <<>>]

NoOutcome == [kind |-> "none", value |-> Undefined, error |-> NoError]

NothingStored == [exists |-> FALSE, sent |-> IsoString(0)]

NoSend == [called |-> FALSE, accepted |-> FALSE]

NoData == [loaded |-> FALSE, bookings |-> Undefined, nlpAnalysis |-> Undefined]

ApiRest ==
  /\ phase = "idle" /\ request = NoRequest /\ httpCount = 0
  /\ response = NoResponse /\ outcome = NoOutcome /\ stored = NothingStored
  /\ authToken = Null /\ consoleLog = <<>>

ChatRest ==
  /\ chatVariant = "current" /\ welcomeMessageShown = FALSE
  /\ messages = <<>> /\ stamps = <<>> /\ inputValue = <<>>
  /\ isLoading = FALSE /\ sendPc = "idle" /\ cmdResult = Undefined
  /\ lastSend = NoSend /\ netCount = 0
  /\ analysisData = NoData /\ appLoading = TRUE
  /\ isDrawerOpen = FALSE /\ loads = <<>> /\ pending = {} /\ completed = <<>>

\* BookingList is not mounted
ListRest ==
  /\ listBookings = <<>> /\ listFiltered = <<>> /\ listLoading = TRUE
  /\ listError = Null /\ searchQuery = <<>> /\ listPending = 0
  /\ listHooks = 0 /\ listView = "none"

StatusRest ==
  /\ clock = 0 /\ themeMode = "light"
  /\ booking = [start_time |-> IsoString(0), end_time |-> IsoString(0)]
  /\ entry = NotRendered /\ memo = NotRendered /\ chip = NotRendered
  /\ ListRest

\* the components are mounted with some booking and have rendered once
InitStatus ==
  /\ clock = 0
  /\ themeMode = "light"
  /\ booking \in BookingProps
  /\ entry = [now |-> 0, label |-> getStatusInfo(DateOf(0), booking)]
  /\ chip  = [now |-> 0, label |-> getStatusChip(DateOf(0), booking)]
  /\ memo  = [now |-> 0, label |-> getStatusInfoMemo(DateOf(0), booking)]
  /\ ListRest
  /\ ApiRest
  /\ ChatRest

\* time passes
Tick ==
  /\ clock < MaxT
  /\ clock' = clock + 1
  /\ UNCHANGED <<booking, themeMode, entry, memo, chip, listVars>>
  /\ UNCHANGED <<apiVars, chatVars>>

\* the parent hands the components a booking (the same one or another) and
\* they render
RenderBooking(b) ==
  /\ booking' = b
  /\ RenderAll(b, b.start_time # booking.start_time \/ b.end_time # booking.end_time)
  /\ UNCHANGED <<clock, themeMode, listVars>>
  /\ UNCHANGED <<apiVars, chatVars>>

\* App's theme toggle: setMode, a new theme object, every component renders
ToggleTheme ==
  /\ themeMode' = IF themeMode = "light" THEN "dark" ELSE "light"
  /\ RenderAll(booking, TRUE)
  /\ UNCHANGED <<clock, booking, listVars>>
  /\ UNCHANGED <<apiVars, chatVars>>

NextStatus ==
  \/ Tick
  \/ \E b \in BookingProps : RenderBooking(b)
  \/ ToggleTheme

SpecStatus == InitStatus /\ [][NextStatus]_vars

(***************************************************************************)
(* Claims about the status deriver, checked under SpecStatus.              *)
(***************************************************************************)
\* the three results the last renders produced, each with the instant its
\* deriver read from the clock
Derived == {entry, memo, chip}

StartDate == NewDate(booking.start_time)

EndDate == NewDate(booking.end_time)

\* C1: whenever a deriver ran at an instant before the booking's start_time,
\* it returned Upcoming (all three copies).
C1_UpcomingBeforeStart ==
  \A r \in Derived :
    DateLt(DateOf(r.now), StartDate) => r.label = "Upcoming"

\* C1 witness: a render after the clock moved, still before the start, with
\* an end_time that is already past (the first test decides).
C1_Witness ==
  /\ entry.now = 1
  /\ DateLt(DateOf(entry.now), StartDate)
  /\ DateGt(DateOf(entry.now), EndDate)
  /\ entry.label = "Upcoming" /\ chip.label = "Upcoming"

\* C2 as stated: whenever a deriver ran at an instant after the booking's
\* end_time it returned Completed, whatever the order of the two timestamps.
C2_CompletedAfterEnd_Original ==
  \A r \in {entry, chip} :
    DateGt(DateOf(r.now), EndDate) => r.label = "Completed"

\* C2 amended: whenever a deriver ran at an instant after the end_time of a
\* booking whose start_time is not after its end_time, it returned Completed.
C2_CompletedAfterEnd ==
  \A r \in {entry, chip} :
    (DateGt(DateOf(r.now), EndDate) /\ ~DateGt(StartDate, EndDate) /\ StartDate.valid)
      => r.label = "Completed"

\* C2 witness: a render after the end of a well-ordered booking.
C2_Witness ==
  /\ StartDate.valid /\ EndDate.valid /\ StartDate.t < EndDate.t
  /\ DateGt(DateOf(chip.now), EndDate)
  /\ chip.label = "Completed" /\ entry.label = "Completed"

\* C3: whenever a deriver ran at an instant with start_time <= now <= end_time
\* it returned In Progress, both boundary instants and the zero-duration
\* booking included (all three copies).
C3_InProgressWithin ==
  \A r \in Derived :
    ( /\ StartDate.valid /\ EndDate.valid
      /\ StartDate.t <= r.now /\ r.now <= EndDate.t )
      => r.label = "In Progress"

\* C3 witness: the zero-duration booking rendered at its own instant, after
\* the clock moved, by all three copies.
C3_Witness ==
  /\ StartDate.valid /\ EndDate.valid
  /\ StartDate.t = 1 /\ EndDate.t = 1
  /\ \A r \in Derived : r.now = 1 /\ r.label = "In Progress"

\* C4: every deriver returns one of the three labels, and copies that ran at
\* the same instant on the same booking returned the same label.
C4_TotalAndAgreeing ==
  /\ \A r \in Derived : r.label \in Labels
  /\ \A r, q \in Derived : r.now = q.now => r.label = q.label

\* C4 witness: the three copies ran at the same instant on a booking with an
\* unparseable start_time and agree (on In Progress).
C4_Witness ==
  /\ ~StartDate.valid /\ EndDate.valid
  /\ entry.now = 2 /\ memo.now = 2 /\ chip.now = 2
  /\ EndDate.t = 2
  /\ entry.label = "In Progress" /\ memo.label = entry.label /\ chip.label = entry.label

\* C19: after every render each copy's label is the one its deriver gives
\* for the clock of that render (entry.now is the clock of the last render:
\* BookingEntry has no memo).
C19_RecomputedEveryRender ==
  /\ entry.label = getStatusInfo(DateOf(entry.now), booking)
  /\ chip.label  = getStatusChip(DateOf(entry.now), booking)
  /\ memo.label  = getStatusInfoMemo(DateOf(entry.now), booking)

(***************************************************************************)
(* The HTTP client.  `res` is the way axios settled the request: fulfilled *)
(* with a 2xx response, or rejected with an AxiosError (with the non-2xx   *)
(* response, or with none after a timeout or a network failure).           *)
(***************************************************************************)
Fulfilled(data) ==
  [kind |-> "fulfilled", hasResponse |-> TRUE, status |-> 200, data |-> data,
   message |-> <<>>]

RejectedWith(status, data) ==
  [kind |-> "rejected", hasResponse |-> TRUE, status |-> status, data |-> data,
   message |-> <<"Request failed with status code ", ToString(status)>>]

\* the request ran into the instance's timeout of 10 seconds
TimedOut ==
  [kind |-> "rejected", hasResponse |-> FALSE, status |-> 0, data |-> Undefined,
   message |-> <<"timeout of 10000ms exceeded">>]

NetworkError ==
  [kind |-> "rejected", hasResponse |-> FALSE, status |-> 0, data |-> Undefined,
   message |-> <<"Network Error">>]

\* the result of a try block: a value, or the error raised in it
Value(v) == [threw |-> FALSE, error |-> JsError("none"), value |-> v]

Raise(e) == [threw |-> TRUE, error |-> e, value |-> Undefined]

\* await apiClient.get/post/delete(...)
Await(res) == IF res.kind = "rejected" THEN Raise(res) ELSE Value(res)

\* b => ({ ...b, start_time: toISO(b.start_time), end_time: toISO(b.end_time) })
NormalizeBooking(b) ==
  [b EXCEPT !.start_time = toISO(b.start_time).value,
            !.end_time   = toISO(b.end_time).value]

NormalizeThrows(b) == toISO(b.start_time).threw \/ toISO(b.end_time).threw

\* ---- services/bookingApi.ts
getAllBookingsNewestFirst(res) ==
  LET r == Await(res)
      d == r.value.data
  IN  IF r.threw THEN Threw(handleAxiosError(r.error))
      ELSE IF d.t # "array" THEN Returned(d)
      ELSE Returned(Arr([i \in 1..Len(d.items) |-> d.items[Len(d.items) + 1 - i]]))

getAllBookings(res) ==
  LET r == Await(res)
  IN  IF r.threw THEN Threw(handleAxiosError(r.error)) ELSE Returned(r.value.data)

createBooking(res) ==
  LET r == Await(res)
  IN  IF r.threw THEN Threw(handleAxiosError(r.error)) ELSE Returned(r.value.data)

getBookingById(res) ==
  LET r == Await(res)
  IN  IF r.threw THEN Threw(handleAxiosError(r.error)) ELSE Returned(r.value.data)

deleteBooking(res) ==
  LET r == Await(res)
  IN  IF r.threw THEN Threw(handleAxiosError(r.error)) ELSE Returned(Undefined)

processCommand(res) ==
  LET r == Await(res)
  IN  IF r.threw THEN Threw(handleAxiosError(r.error)) ELSE Returned(r.value.data)

\* ---- the enveloped client (theme/index.ts)
\* the try block of getAllBookings: res.data.data.map(...)
getAllBookingsEnvelopedTry(res) ==
  LET r == Await(res)
  IN  IF r.threw THEN r
      ELSE LET d == GetData(r.value.data)
           IN  IF d.threw \/ d.value.t # "array" THEN Raise(JsError("TypeError"))
               ELSE IF \E i \in 1..Len(d.value.items) : NormalizeThrows(d.value.items[i])
                    THEN Raise(JsError("RangeError"))
               ELSE Value(Arr([i \in 1..Len(d.value.items) |->
                                 NormalizeBooking(d.value.items[i])]))

\* the try block of the operations that return res.data.data
EnvelopedDataTry(res) ==
  LET r == Await(res)
  IN  IF r.threw THEN r
      ELSE LET d == GetData(r.value.data)
           IN  IF d.threw THEN Raise(JsError("TypeError")) ELSE Value(d.value)

getAllBookingsEnveloped(res) ==
  LET r == getAllBookingsEnvelopedTry(res)
  IN  IF r.threw THEN Threw(handleAxiosErrorEnveloped(r.error)) ELSE Returned(r.value)

createBookingEnveloped(res) ==
  LET r == EnvelopedDataTry(res)
  IN  IF r.threw THEN Threw(handleAxiosErrorEnveloped(r.error)) ELSE Returned(r.value)

getBookingByIdEnvelopedAxiosOnly(res) ==
  LET r == EnvelopedDataTry(res)
  IN  IF r.threw
      THEN IF isAxiosError(r.error) THEN Threw(handleAxiosErrorEnveloped(r.error))
           ELSE Threw(Escapes(r.error))
      ELSE Returned(r.value)

getBookingByIdEnveloped(res) ==
  LET r == EnvelopedDataTry(res)
  IN  IF r.threw THEN Threw(handleAxiosErrorEnveloped(r.error)) ELSE Returned(r.value)

deleteBookingEnveloped(res) ==
  LET r == Await(res)
  IN  IF r.threw THEN Threw(handleAxiosErrorEnveloped(r.error)) ELSE Returned(Undefined)

processCommandEnveloped(res) ==
  LET r == EnvelopedDataTry(res)
  IN  IF r.threw THEN Threw(handleAxiosErrorEnveloped(r.error)) ELSE Returned(r.value)

Variants == {"plain", "enveloped"}

\* what the awaited operation hands to its caller once axios has settled
Settle(req, res) ==
  CASE req.op = "getAllBookings" ->
         IF req.variant = "plain" THEN getAllBookings(res) ELSE getAllBookingsEnveloped(res)
    [] req.op = "createBooking" ->
         IF req.variant = "plain" THEN createBooking(res) ELSE createBookingEnveloped(res)
    [] req.op = "getBookingById" ->
         IF req.variant = "plain" THEN getBookingById(res) ELSE getBookingByIdEnveloped(res)
    [] req.op = "deleteBooking" ->
         IF req.variant = "plain" THEN deleteBooking(res) ELSE deleteBookingEnveloped(res)
    [] req.op = "processCommand" ->
         IF req.variant = "plain" THEN processCommand(res) ELSE processCommandEnveloped(res)

\* the path each operation requests
UrlOf(op, variant, id) ==
  CASE op = "getAllBookings" ->
         IF variant = "plain" THEN <<"/bookings">> ELSE <<"/api/v1/bookings/">>
    [] op = "createBooking" ->
         IF variant = "plain" THEN <<"/bookings">> ELSE <<"/api/v1/bookings">>
    [] op = "getBookingById" ->
         IF variant = "plain" THEN <<"/bookings/", id>> ELSE <<"/api/v1/bookings/", id>>
    [] op = "deleteBooking" -> <<"/bookings/", id>>
    [] op = "processCommand" ->
         IF variant = "plain" THEN <<"/bookings/commands">>
         ELSE <<"/api/v1/bookings/commands">>

(***************************************************************************)
(* The remote service, as the client can meet it.                          *)
(***************************************************************************)
Ids == {ToString(n) : n \in 1..MaxList}

Formats == {"iso", "offset", "other"}

\* the instant t written in the format f
Written(t, f) ==
  CASE f = "iso"    -> IsoString(t)
    [] f = "offset" -> OffsetString(t, 1)
    [] OTHER        -> OtherString(t)

\* the end_time the service gives a booking: one millisecond on, same format
Later(s) == [s EXCEPT !.v = @ + 1]

ServedBooking(id, s) == BookingObject(id, s, Later(s))

\* the lists the service may send: bookings with distinct ids in any order,
\* consecutive instants from any first one, all timestamps of one response in
\* one format
IdSeqs ==
  {q \in UNION {[1..n -> Ids] : n \in 0..MaxList} :
     \A i, j \in DOMAIN q : i # j => q[i] # q[j]}

ServedLists ==
  UNION { { [i \in DOMAIN q |-> ServedBooking(q[i], Written((t0 + i - 1) % (MaxT + 1), f))] :
              t0 \in Instants, f \in Formats } : q \in IdSeqs }

CommandPayloads ==
  {[t |-> "object", intent |-> i, message |-> Str(<<"done">>), bookings |-> Arr(l)] :
     i \in {"list_bookings", "booking_error"},
     l \in {<<>>} \cup {<<ServedBooking("1", s)>> : s \in TimeStrings}}

\* the payload each operation's 2xx response is declared to carry
Payloads(req, st) ==
  CASE req.op = "getAllBookings" -> {Arr(l) : l \in ServedLists}
    [] req.op = "createBooking" ->
         {ServedBooking("1", s) : s \in StringsOf(Denotes(req.arg.start_time))}
    [] req.op = "getBookingById" ->
         IF st.exists /\ req.arg.s = <<"1">>
         THEN {ServedBooking("1", s) : s \in StringsOf(Denotes(st.sent))}
         ELSE {}
    [] req.op = "deleteBooking" -> {Null}
    [] req.op = "processCommand" -> CommandPayloads

\* 2xx bodies that are neither the payload nor its envelope
MalformedBodies == {EmptyObject, Str(<<"<html>">>), Str(<<>>), Null}

ErrorBodies ==
  { Str(<<"Internal Server Error">>),
    Str(<<>>),
    [t |-> "object", detail |-> Str(<<"Booking not found">>)],
    [t |-> "object", detail |-> Arr(<<EmptyObject>>)],
    [t |-> "object", error |-> Str(<<"Internal">>)] }

ErrorStatuses == {404, 422, 500}

\* every way axios may settle the request
ResponsesFor(req, st) ==
  {TimedOut, NetworkError}
  \cup {RejectedWith(c, b) : c \in ErrorStatuses, b \in ErrorBodies}
  \cup {Fulfilled(b) : b \in MalformedBodies}
  \cup {Fulfilled(p) : p \in Payloads(req, st)}
  \cup {Fulfilled(Envelope(p)) : p \in Payloads(req, st)}

\* the body has the type the operation declares for its response
PayloadOk(op, v) ==
  CASE op = "getAllBookings" -> v.t = "array"
    [] op = "deleteBooking"  -> TRUE
    [] op = "processCommand" -> v.t = "object" /\ "intent" \in DOMAIN v
    [] OTHER                 -> v.t = "object" /\ "id" \in DOMAIN v

WellFormed(req, data) ==
  IF req.variant = "plain" THEN PayloadOk(req.op, data)
  ELSE data.t = "object" /\ "data" \in DOMAIN data /\ PayloadOk(req.op, data.data)

(***************************************************************************)
(* The client's operations as steps: the call dispatches one request and   *)
(* suspends, axios settles it, the caller takes what the operation hands   *)
(* over.                                                                   *)
(***************************************************************************)
\* config.method?.toUpperCase()
ToUpperCase(method) ==
  CASE method = "get" -> "GET" [] method = "post" -> "POST" [] method = "delete" -> "DELETE"

\* console.log(`[API] ${config.method?.toUpperCase()} ${config.url}`)
RequestLog(config) ==
  [level |-> "log", text |-> <<"[API] ", ToUpperCase(config.method), " ">> \o config.url]

\* console.error(`[API Error] ${error.config?.url} - ${error.message}`)
ErrorLog(config, error) ==
  [level |-> "error", text |-> <<"[API Error] ">> \o config.url \o <<" - ">> \o error.message]

\* services/bookingApi.ts: the request interceptor returns config as it is
requestInterceptor(config, token) ==
  [config |-> config, logged |-> <<>>]

\* theme/index.ts: the request interceptor sets the header and logs
requestInterceptorEnveloped(config, token) ==
  [config |-> IF Truthy(token)
              THEN [config EXCEPT !.headers.Authorization = Str(<<"Bearer ">> \o token.s)]
              ELSE config,
   logged |-> <<RequestLog(config)>>]

\* services/bookingApi.ts: the response interceptor passes the response on
\* and rejects with the error; it logs nothing and sends nothing again
responseInterceptor(config, res) == [logged |-> <<>>, resend |-> FALSE]

responseInterceptorEnvelopedRetries(config, res) ==
  [logged |-> IF res.kind = "rejected" THEN <<ErrorLog(config, res)>> ELSE <<>>,
   resend |-> res.kind = "rejected" /\ ~res.hasResponse]

\* theme/index.ts: the response interceptor logs an AxiosError and rejects
\* with it
responseInterceptorEnveloped(config, res) ==
  [logged |-> IF res.kind = "rejected" THEN <<ErrorLog(config, res)>> ELSE <<>>,
   resend |-> FALSE]

\* the operation is called: axios builds the config and runs the request
\* interceptor
Dispatch(op, variant, method, id, arg) ==
  /\ phase = "idle"
  /\ phase' = "requesting"
  /\ LET config == [op |-> op, variant |-> variant, method |-> method,
                    url |-> UrlOf(op, variant, id), arg |-> arg,
                    headers |-> [Authorization |-> Undefined]]
         r == IF variant = "plain" THEN requestInterceptor(config, authToken)
              ELSE requestInterceptorEnveloped(config, authToken)
     IN  /\ request' = r.config
         /\ consoleLog' = consoleLog \o r.logged
  /\ UNCHANGED <<httpCount, response, outcome, stored, authToken>>
  /\ UNCHANGED <<statusVars, chatVars>>

\* axios hands the request to the network
Send ==
  /\ phase = "requesting"
  /\ phase' = "inflight"
  /\ httpCount' = httpCount + 1
  /\ UNCHANGED <<request, response, outcome, stored, authToken, consoleLog>>
  /\ UNCHANGED <<statusVars, chatVars>>

\* the item 'authToken' of localStorage is written or removed outside the
\* client, between calls
Tokens == {Null, Str(<<>>), Str(<<"t1">>), Str(<<"t2">>)}

StorageChanges(token) ==
  /\ phase = "idle"
  /\ token # authToken
  /\ authToken' = token
  /\ UNCHANGED <<phase, request, httpCount, response, outcome, stored, consoleLog>>
  /\ UNCHANGED <<statusVars, chatVars>>

CallGetAllBookings(variant) ==
  Dispatch("getAllBookings", variant, "get", "", Undefined)

\* the model follows one booking, from its creation to its deletion
CallCreateBooking(variant, start) ==
  /\ ~stored.exists
  /\ Dispatch("createBooking", variant, "post", "",
              [t |-> "object", start_time |-> start])

CallGetBookingById(variant, id) ==
  Dispatch("getBookingById", variant, "get", id, Str(<<id>>))

CallDeleteBooking(variant, id) ==
  Dispatch("deleteBooking", variant, "delete", id, Str(<<id>>))

CallProcessCommand(variant, message) ==
  Dispatch("processCommand", variant, "post", "",
           [t |-> "object", message |-> Str(message)])

\* the service answered with the operation's payload, bare or enveloped
Served(req, res, st) ==
  /\ res.kind = "fulfilled"
  /\ \E p \in Payloads(req, st) : res.data = p \/ res.data = Envelope(p)

\* what the service holds once it answered res to req
StoredAfter(req, res, st) ==
  IF Served(req, res, st)
  THEN CASE req.op = "createBooking" -> [exists |-> TRUE, sent |-> req.arg.start_time]
         [] req.op = "deleteBooking" /\ req.arg.s = <<"1">> -> NothingStored
         [] OTHER -> st
  ELSE st

AxiosSettles(res) ==
  LET r == IF request.variant = "plain" THEN responseInterceptor(request, res)
           ELSE responseInterceptorEnveloped(request, res)
  IN  /\ consoleLog' = consoleLog \o r.logged
      /\ IF r.resend
         THEN /\ httpCount' = httpCount + 1
              /\ UNCHANGED <<phase, response, outcome, stored>>
         ELSE /\ phase' = "settled"
              /\ response' = res
              /\ outcome' = Settle(request, res)
              /\ stored' = StoredAfter(request, res, stored)
              /\ UNCHANGED httpCount
      /\ UNCHANGED <<request, authToken>>
      /\ UNCHANGED <<statusVars, chatVars>>

CallerTakes ==
  /\ phase = "settled"
  /\ phase' = "idle"
  /\ request' = NoRequest /\ response' = NoResponse /\ outcome' = NoOutcome
  /\ httpCount' = 0 /\ consoleLog' = <<>>
  /\ UNCHANGED <<stored, authToken>>
  /\ UNCHANGED <<statusVars, chatVars>>

InitApi == ApiRest /\ StatusRest /\ ChatRest

NextApi ==
  \/ \E v \in Variants : CallGetAllBookings(v)
  \/ \E v \in Variants, s \in TimeStrings : CallCreateBooking(v, s)
  \/ \E v \in Variants, id \in Ids : CallGetBookingById(v, id)
  \/ \E v \in Variants, id \in Ids : CallDeleteBooking(v, id)
  \/ \E v \in Variants : CallProcessCommand(v, <<"list">>)
  \/ Send
  \/ phase = "inflight" /\ \E res \in ResponsesFor(request, stored) : AxiosSettles(res)
  \/ CallerTakes
  \/ \E token \in Tokens : StorageChanges(token)

SpecApi == InitApi /\ [][NextApi]_vars

(***************************************************************************)
(* Claims about the HTTP client, checked under SpecApi.                    *)
(***************************************************************************)
Settled == phase = "settled"

\* the server answered non-2xx with an object body that carries a detail field
DetailResponse ==
  /\ Settled
  /\ response.kind = "rejected" /\ response.hasResponse
  /\ HasDetail(response.data)

\* C5 as stated: after a non-2xx response whose body is an object with a
\* detail field, the surfaced error's detail is that field's value and its
\* status the response's HTTP status.
C5_DetailAndStatus_Original ==
  DetailResponse =>
    /\ outcome.kind = "threw"
    /\ outcome.error.message = ToText(response.data.detail)
    /\ outcome.error.status = StatusOf(response.status)

\* C5 amended: after such a response the operation throws a BookingApiError
\* whose message is "API request failed: " followed by the detail field's
\* value converted to a string, and whose status is the response's status.
C5_DetailAndStatus ==
  DetailResponse =>
    /\ outcome.kind = "threw"
    /\ outcome.error.name = "BookingApiError"
    /\ outcome.error.message = <<ApiRequestFailed>> \o ToText(response.data.detail)
    /\ outcome.error.status = StatusOf(response.status)

\* C5 witness: get booking by id answered 404 {"detail": "Booking not found"}.
C5_Witness ==
  /\ DetailResponse
  /\ request.op = "getBookingById" /\ request.variant = "plain"
  /\ response.status = 404
  /\ response.data.detail = Str(<<"Booking not found">>)
  /\ outcome.error.message = <<ApiRequestFailed, "Booking not found">>
  /\ outcome.error.status = StatusOf(404)

\* C6: after a timeout or a network failure (no response received) the
\* operation throws a BookingApiError without a status whose message is
\* "API request failed: " followed by the transport's own message for the
\* failure (axios's timeout message for a timeout).
C6_NoResponseError ==
  (Settled /\ response.kind = "rejected" /\ ~response.hasResponse) =>
    /\ outcome.kind = "threw"
    /\ outcome.error.name = "BookingApiError"
    /\ outcome.error.status = NoStatus
    /\ response.message # <<>>
    /\ outcome.error.message = <<ApiRequestFailed>> \o response.message

\* C6 witness: a command submitted through the enveloped client timed out.
C6_Witness ==
  /\ Settled /\ response = TimedOut
  /\ request.op = "processCommand" /\ request.variant = "enveloped"
  /\ outcome.error.status = NoStatus
  /\ outcome.error.message = <<ApiRequestFailed, "timeout of 10000ms exceeded">>

\* C7 as stated: after a network failure, a timeout, a non-2xx response or a
\* 2xx response whose body is malformed, the operation throws, and what it
\* throws is a BookingApiError.
C7_AllFailuresSurface_Original ==
  (Settled /\ (response.kind = "rejected" \/ ~WellFormed(request, response.data))) =>
    /\ outcome.kind = "threw"
    /\ outcome.error.name = "BookingApiError"

\* C7 amended: after a network failure, a timeout or a non-2xx response the
\* operation throws; whatever an operation throws is a BookingApiError
\* (errors raised while reading a 2xx body included); a malformed 2xx body
\* that raises no error is handed to the caller (the body itself, or the
\* undefined read out of it).
C7_AllFailuresSurface ==
  Settled =>
    /\ response.kind = "rejected" => outcome.kind = "threw"
    /\ outcome.kind = "threw" => outcome.error.name = "BookingApiError"
    /\ (response.kind = "fulfilled" /\ ~WellFormed(request, response.data)) =>
         \/ /\ outcome.kind = "threw"
            /\ outcome.error = BookingApiError(Unexpected, NoStatus)
         \/ /\ outcome.kind = "returned"
            /\ outcome.value \in {response.data, Undefined}

\* C7 witness: the enveloped get-by-id read a null body, the TypeError was
\* caught and surfaced as a BookingApiError.
C7_Witness ==
  /\ Settled
  /\ request.op = "getBookingById" /\ request.variant = "enveloped"
  /\ response.kind = "fulfilled" /\ response.data = Null
  /\ outcome.kind = "threw"
  /\ outcome.error = BookingApiError(Unexpected, NoStatus)

\* the bookings in a value handed to a caller
BookingsIn(v) ==
  CASE v.t = "array" -> {v.items[i] : i \in 1..Len(v.items)}
    [] v.t = "object" /\ "start_time" \in DOMAIN v -> {v}
    [] v.t = "object" /\ "bookings" \in DOMAIN v ->
         {v.bookings.items[i] : i \in 1..Len(v.bookings.items)}
    [] OTHER -> {}

\* C9: every booking an operation hands to its caller has start_time and
\* end_time in the canonical ISO-8601 form.
C9_CanonicalTimestamps ==
  (Settled /\ outcome.kind = "returned") =>
    \A b \in BookingsIn(outcome.value) :
      IsCanonical(b.start_time) /\ IsCanonical(b.end_time)

\* get booking by id handed a booking to its caller
GotBooking ==
  /\ Settled /\ request.op = "getBookingById"
  /\ outcome.kind = "returned"
  /\ outcome.value.t = "object" /\ "start_time" \in DOMAIN outcome.value
  /\ stored.exists

\* the start_time given to create booking and the one get-by-id returned
\* normalize to the same instant, the one the created string denotes
SameInstant(sent, got) ==
  LET a == toISO(sent)
      b == toISO(got)
  IN  /\ ~a.threw /\ ~b.threw
      /\ NewDate(a.value) = NewDate(b.value)
      /\ NewDate(b.value) = DateOf(Denotes(sent))

Dispatched == phase \in {"inflight", "settled"}

\* C11: every dispatched request carries "Bearer <token>" in its
\* Authorization header when a token is stored at dispatch time, and no
\* Authorization header when none is.
C11_BearerTokenAttached ==
  Dispatched =>
    request.headers.Authorization =
      (IF Truthy(authToken) THEN Str(<<"Bearer ">> \o authToken.s) ELSE Undefined)

\* C12: a request that was dispatched is preceded by a console entry with
\* its method and path.
C12_LoggedBeforeDispatch ==
  Dispatched => \E i \in DOMAIN consoleLog : consoleLog[i] = RequestLog(request)

\* list bookings returned, and the service had answered with a list
GotList ==
  /\ Settled /\ request.op = "getAllBookings"
  /\ outcome.kind = "returned"
  /\ WellFormed(request, response.data)

\* the list the service sent
SentList == IF request.variant = "plain" THEN response.data.items ELSE response.data.data.items

\* C17: the list that list bookings returns has the bookings of the
\* server's list, position by position: as many, the same ids in the same
\* order, each with the instants the server gave it.
C17_ServerOrderPreserved ==
  GotList =>
    /\ outcome.value.t = "array"
    /\ Len(outcome.value.items) = Len(SentList)
    /\ \A i \in 1..Len(SentList) :
         /\ outcome.value.items[i].id = SentList[i].id
         /\ NewDate(outcome.value.items[i].start_time) = NewDate(SentList[i].start_time)
         /\ NewDate(outcome.value.items[i].end_time) = NewDate(SentList[i].end_time)

\* C17 witness: the server sent booking 2 before booking 1 and the caller
\* got them in that order (here from the client that rewrites timestamps).
C17_Witness ==
  /\ GotList /\ request.variant = "enveloped"
  /\ Len(SentList) = 2
  /\ SentList[1].id = "2" /\ SentList[2].id = "1"
  /\ SentList[1].start_time.fmt = "offset"
  /\ outcome.value.items[1].id = "2" /\ outcome.value.items[2].id = "1"

\* the detail the fallback order picks for a rejected request
FallbackDetail(res) ==
  IF res.hasResponse /\ HasDetail(res.data) THEN ToText(res.data.detail)
  ELSE IF res.hasResponse /\ Truthy(res.data)
       THEN IF res.data.t = "string" THEN res.data.s ELSE JSONstringify(res.data)
  ELSE res.message

\* C20: for a request that axios rejected, the surfaced error's message is
\* "API request failed: " followed by the body's detail field if the body is
\* an object with one, else by the body (the string, or the body serialized),
\* else, without a body, by the transport's message; and its status is the
\* response's whenever there was a response, and absent otherwise.
C20_DetailFallbackOrder ==
  (Settled /\ response.kind = "rejected") =>
    /\ outcome.kind = "threw"
    /\ outcome.error.message = <<ApiRequestFailed>> \o FallbackDetail(response)
    /\ outcome.error.status =
         (IF response.hasResponse THEN StatusOf(response.status) ELSE NoStatus)

\* C20 witness: a 500 response whose body is an object without a detail
\* field surfaced with the serialized body and the status.
C20_Witness ==
  /\ Settled /\ response.kind = "rejected" /\ response.status = 500
  /\ response.data = [t |-> "object", error |-> Str(<<"Internal">>)]
  /\ outcome.kind = "threw"
  /\ outcome.error.message = <<ApiRequestFailed, "{\"error\":\"", "Internal", "\"}">>
  /\ outcome.error.status = StatusOf(500)

Chars == {" ", "\n", "a"}

Whitespace == {" ", "\n"}

Inputs == UNION {[1..n -> Chars] : n \in 0..MaxInput}

RECURSIVE TrimStart(_)
TrimStart(s) ==
  IF s # <<>> /\ Head(s) \in Whitespace THEN TrimStart(Tail(s)) ELSE s

RECURSIVE TrimEnd(_)
TrimEnd(s) ==
  IF s # <<>> /\ s[Len(s)] \in Whitespace THEN TrimEnd(SubSeq(s, 1, Len(s) - 1)) ELSE s

\* String.prototype.trim
Trim(s) == TrimEnd(TrimStart(s))

\* a line of plain text
TextLine(s) == [kind |-> "text", s |-> s]

\* a line "- ID: <id>, Technician: ..., Profession: ..., Start: <start>"
BookingLine(id, start) == [kind |-> "booking", id |-> id, start |-> start]

WelcomeText ==
  <<TextLine("Welcome to the Technician Booking System! How can I assist you today?")>>

UserMessage(content) ==
  [role |-> "user", content |-> content, intent |-> "", message |-> <<>>,
   bookings |-> <<>>, type |-> ""]

SystemMessage(intent, message, bookings, type) ==
  [role |-> "system", content |-> <<>>, intent |-> intent, message |-> message,
   bookings |-> bookings, type |-> type]

WelcomeMessage == SystemMessage("welcome", WelcomeText, <<>>, "info")

\* the intents the model's service answers with, and String.includes on them
Intents == {"list_bookings", "booking_success", "unknown_error", "slot_warning",
            "success_with_error", "warning_success", "error_warning"}

IntentIncludes(intent, word) ==
  CASE word = "error"   -> intent \in {"error", "unknown_error", "success_with_error",
                                        "error_warning"}
    [] word = "success" -> intent \in {"booking_success", "success_with_error",
                                        "warning_success"}
    [] word = "warning" -> intent \in {"slot_warning", "warning_success", "error_warning"}

determineMessageTypeSuccessFirst(intent) ==
  IF IntentIncludes(intent, "success") THEN "success"
  ELSE IF IntentIncludes(intent, "error") THEN "error"
  ELSE IF IntentIncludes(intent, "warning") THEN "warning"
  ELSE "info"

determineMessageType(intent) ==
  IF IntentIncludes(intent, "error") THEN "error"
  ELSE IF IntentIncludes(intent, "success") THEN "success"
  ELSE IF IntentIncludes(intent, "warning") THEN "warning"
  ELSE "info"

\* a line of an error text
ErrorLines(text) == [i \in DOMAIN text |-> TextLine(text[i])]

\* err.message.replace('API request failed: ', ''): the first occurrence goes
RECURSIVE RemoveFirst(_, _)
RemoveFirst(text, token) ==
  IF text = <<>> THEN <<>>
  ELSE IF Head(text) = token THEN Tail(text)
  ELSE <<Head(text)>> \o RemoveFirst(Tail(text), token)

\* ---- what the service answers to a chat command
ChatResult(intent, lines) ==
  [t |-> "object", intent |-> intent, message |-> Str(lines)]

ChatResults ==
  {ChatResult(i, <<TextLine("done")>>) : i \in Intents}
  \cup {ChatResult("list_bookings", <<TextLine("Bookings:"), BookingLine("1", s)>>) :
          s \in StringsOf(1)}
  \cup {ChatResult("list_bookings", <<TextLine("see - ID: 7")>>)}
  \cup {[t |-> "object", intent |-> "booking_success", message |-> Str(<<TextLine("booked")>>),
         bookings |-> Arr(<<ServedBooking("1", IsoString(1))>>)]}
  \cup {[t |-> "object", intent |-> "booking_info", message |-> Str(<<TextLine("yours")>>),
         bookings |-> Arr(<<ServedBooking("1", IsoString(1))>>)]}
  \cup {[t |-> "object", intent |-> "booking_info", message |-> Str(<<TextLine("yours")>>),
         bookings |-> Arr(<<ServedBooking("1", IsoString(1)), ServedBooking("2", IsoString(1))>>)]}
  \cup {[t |-> "object", intent |-> "list_bookings"], EmptyObject}

ChatCommandResponses ==
  {TimedOut, RejectedWith(404, [t |-> "object", detail |-> Str(<<"Booking not found">>)]),
   RejectedWith(500, Str(<<ApiRequestFailed, "upstream">>))}
  \cup {Fulfilled(r) : r \in ChatResults}

ChatListResponses ==
  {NetworkError, Fulfilled(Arr(<<>>)), Fulfilled(Arr(<<ServedBooking("1", IsoString(1))>>))}

\* line.includes('- ID:')
LineIncludesId(line) == line.kind = "booking" \/ line.s = "see - ID: 7"

\* parseBookingsFromMessage: one booking per line that starts with "- ID:";
\* the Start part goes through new Date(...).toISOString()
RECURSIVE parseBookingsFromMessage(_)
parseBookingsFromMessage(lines) ==
  IF lines = <<>> THEN [threw |-> FALSE, bookings |-> <<>>]
  ELSE LET line == Head(lines)
           rest == parseBookingsFromMessage(Tail(lines))
       IN  IF line.kind # "booking" THEN rest
           ELSE IF toISO(line.start).threw \/ rest.threw
                THEN [threw |-> TRUE, bookings |-> <<>>]
           ELSE IF line.id = "" THEN rest
           ELSE [threw |-> FALSE,
                 bookings |-> <<[t |-> "object", id |-> line.id,
                                 start_time |-> toISO(line.start).value]>>
                              \o rest.bookings]

Field(v, f, default) == IF v.t = "object" /\ f \in DOMAIN v THEN v[f] ELSE default

PlainReplyHidesErrorText(result) ==
  IF "intent" \notin DOMAIN result
  THEN [threw |-> TRUE, message |-> WelcomeMessage]
  ELSE [threw |-> FALSE,
        message |-> SystemMessage(result.intent,
                                  IF IntentIncludes(result.intent, "error")
                                  THEN <<TextLine("Something went wrong.")>>
                                  ELSE Field(result, "message", Str(<<>>)).s,
                                  Field(result, "bookings", Arr(<<>>)).items,
                                  determineMessageType(result.intent))]

\* the else branch of the reply: the result's own intent, message and bookings
PlainReply(result) ==
  IF "intent" \notin DOMAIN result
  THEN [threw |-> TRUE, message |-> WelcomeMessage]
  ELSE [threw |-> FALSE,
        message |-> SystemMessage(result.intent,
                                  Field(result, "message", Str(<<>>)).s,
                                  Field(result, "bookings", Arr(<<>>)).items,
                                  determineMessageType(result.intent))]

\* the reply handleSend of index.tsx builds from a command result, or the
\* exception the attempt raises
Reply(result) ==
  IF result.t # "object" THEN [threw |-> TRUE, message |-> WelcomeMessage]
  ELSE IF Field(result, "intent", "") = "list_bookings"
       THEN IF "message" \notin DOMAIN result
            THEN [threw |-> TRUE, message |-> WelcomeMessage]
            ELSE IF \E i \in DOMAIN result.message.s : LineIncludesId(result.message.s[i])
                 THEN LET parsed == parseBookingsFromMessage(result.message.s)
                      IN  [threw |-> parsed.threw,
                           message |-> SystemMessage("booking_info",
                                         <<TextLine("Here are your bookings:")>>,
                                         parsed.bookings, "info")]
            ELSE PlainReply(result)
       ELSE PlainReply(result)

ErrorReplyKeepsPrefix(isApiError, error, generic) ==
  SystemMessage("error",
                IF isApiError THEN ErrorLines(error.message) ELSE <<TextLine(generic)>>,
                <<>>, "error")

\* the catch block of handleSend: the message it appends for err
ErrorReply(isApiError, error, generic) ==
  SystemMessage("error",
                IF isApiError THEN ErrorLines(RemoveFirst(error.message, ApiRequestFailed))
                ELSE <<TextLine(generic)>>,
                <<>>, "error")

GenericError == "An unexpected error occurred."

GenericErrorLegacy == "An unexpected error occurred. Please try again later."

\* the id and the timestamp a message is created with
Stamp(id, now) == [id |-> id, timestamp |-> now]

\* Date.now() in an event handler: a later millisecond than the one any
\* message of the transcript was created in, with `room` milliseconds left
\* in the model for the handlers that follow
DateNow(room) ==
  {now \in 1..(MaxNow - room) : \A i \in DOMAIN stamps : stamps[i].timestamp < now}

addMessagePrepends(message, id, now) ==
  /\ messages' = <<message>> \o messages
  /\ stamps' = <<Stamp(id, now)>> \o stamps

\* addMessage, and setMessages(prev => [...prev, message])
addMessage(message, id, now) ==
  /\ messages' = Append(messages, message)
  /\ stamps' = Append(stamps, Stamp(id, now))

\* a request of the submit whose user message is the n-th of the transcript
ChatRequest(n, op) == [owner |-> "chat", n |-> n, op |-> op]

\* the guard and the synchronous part of handleSend

Submit(rejected, trimmed, ops) ==
  IF rejected
  THEN /\ lastSend' = [called |-> TRUE, accepted |-> FALSE]
       /\ UNCHANGED <<chatVariant, welcomeMessageShown, messages, stamps, inputValue,
                      isLoading, sendPc, cmdResult, netCount, analysisData, appLoading,
                      appVars>>
  ELSE \* room for the message and, unless a command is being answered
       \* already, for at most three replies
       /\ Len(messages) + (IF isLoading THEN 1 ELSE 4) <= MaxMsgs
       /\ \E now \in DateNow(1) : addMessage(UserMessage(trimmed), now, now)
       /\ inputValue' = <<>>
       /\ isLoading' = TRUE
       /\ sendPc' = "awaitCommand"
       /\ netCount' = netCount + Cardinality(ops)
       /\ pending' = pending \cup {ChatRequest(Len(messages) + 1, op) : op \in ops}
       /\ lastSend' = [called |-> TRUE, accepted |-> TRUE]
       /\ UNCHANGED <<chatVariant, welcomeMessageShown, cmdResult, analysisData, appLoading,
                      isDrawerOpen, loads, completed>>

handleSendUntrimmed ==
  /\ chatVariant = "current" /\ welcomeMessageShown
  /\ Submit(inputValue = <<>> \/ isLoading, Trim(inputValue), {"processCommand"})
  /\ UNCHANGED <<statusVars, apiVars>>

handleSendWhileLoading ==
  /\ chatVariant = "current" /\ welcomeMessageShown
  /\ LET trimmed == Trim(inputValue)
     IN  Submit(trimmed = <<>>, trimmed, {"processCommand"})
  /\ UNCHANGED <<statusVars, apiVars>>

handleSendEager ==
  /\ chatVariant = "current" /\ welcomeMessageShown
  /\ LET trimmed == Trim(inputValue)
     IN  Submit(trimmed = <<>> \/ isLoading, trimmed, {"processCommand", "getAllBookings"})
  /\ UNCHANGED <<statusVars, apiVars>>

\* handleSend of index.tsx, up to its first await
handleSend ==
  /\ chatVariant = "current" /\ welcomeMessageShown
  /\ LET trimmed == Trim(inputValue)
     IN  Submit(trimmed = <<>> \/ isLoading, trimmed, {"processCommand"})
  /\ UNCHANGED <<statusVars, apiVars>>

\* handleSend of the older ChatInterface, up to its await
handleSendLegacy ==
  /\ chatVariant = "legacy" /\ welcomeMessageShown
  /\ LET trimmed == Trim(inputValue)
     IN  Submit(trimmed = <<>> \/ isLoading, trimmed, {"processCommand"})
  /\ UNCHANGED <<statusVars, apiVars>>

\* onChange of the text field (the older component disables it while loading)
TypeInput(text) ==
  /\ welcomeMessageShown
  /\ chatVariant = "legacy" => ~isLoading
  /\ inputValue' = text
  /\ lastSend' = NoSend
  /\ UNCHANGED <<chatVariant, welcomeMessageShown, messages, stamps, isLoading, sendPc,
                 cmdResult, netCount, analysisData, appLoading, appVars>>
  /\ UNCHANGED <<statusVars, apiVars>>

\* v || []
OrEmpty(v) == IF Truthy(v) THEN v ELSE Arr(<<>>)

\* { bookings, nlpAnalysis: result.analysis || [] }
AnalyticsData(bookings, result) ==
  [loaded |-> TRUE, bookings |-> bookings,
   nlpAnalysis |-> OrEmpty(Field(result, "analysis", Undefined))]

handleAnalysisUpdateKeepsFirst(current, data) == IF current.loaded THEN current ELSE data

\* App.handleAnalysisUpdate: setAnalysisData(data) (setIsLoading(false) is
\* in the actions that call it)
handleAnalysisUpdate(current, data) == data

\* an analytics load completed: whose it was, whether it delivered data, and
\* whether the other writer's load was in flight at that moment
Completion(owner, delivered, data, overlapped) ==
  [owner |-> owner, delivered |-> delivered, data |-> IF delivered THEN data ELSE NoData,
   overlapped |-> overlapped]

FinishKeepsLoading(message) ==
  /\ \E now \in DateNow(0) : addMessage(message, now, now)
  /\ isLoading' = isLoading
  /\ sendPc' = "idle"
  /\ cmdResult' = Undefined

\* the end of handleSend: the reply or the error message, then finally
Finish(message) ==
  /\ \E now \in DateNow(0) : addMessage(message, now, now)
  /\ isLoading' = FALSE
  /\ sendPc' = "idle"
  /\ cmdResult' = Undefined

\* index.tsx: processCommand settled; on success updateAnalytics fetches the
\* booking list before the reply is built
CommandSettles(res) ==
  /\ chatVariant = "current" /\ sendPc = "awaitCommand"
  /\ LET o == processCommand(res)
     IN  IF o.kind = "threw"
         THEN /\ Finish(ErrorReply(o.error.name = "BookingApiError", o.error, GenericError))
              /\ pending' = pending \ {ChatRequest(Len(messages), "processCommand")}
              /\ UNCHANGED netCount
         ELSE /\ sendPc' = "awaitAnalytics"
              /\ cmdResult' = o.value
              /\ netCount' = netCount + 1
              /\ pending' = (pending \ {ChatRequest(Len(messages), "processCommand")})
                               \cup {ChatRequest(Len(messages), "getAllBookings")}
              /\ UNCHANGED <<messages, stamps, isLoading>>
  /\ UNCHANGED <<chatVariant, welcomeMessageShown, inputValue, lastSend, analysisData,
                 appLoading, isDrawerOpen, loads, completed>>
  /\ UNCHANGED <<statusVars, apiVars>>

\* index.tsx: getAllBookings of updateAnalytics settled (its failure is only
\* logged), App's handleAnalysisUpdate ran, the reply is appended
AnalyticsSettles(res) ==
  /\ chatVariant = "current" /\ sendPc = "awaitAnalytics"
  /\ LET o == getAllBookings(res)
         r == Reply(cmdResult)
         delivered == o.kind = "returned" /\ cmdResult.t \notin {"undefined", "null"}
         data == AnalyticsData(o.value, cmdResult)
     IN  /\ IF delivered
            THEN /\ analysisData' = handleAnalysisUpdate(analysisData, data)
                 /\ appLoading' = FALSE
            ELSE UNCHANGED <<analysisData, appLoading>>
         /\ completed' = Append(completed,
                                Completion("chat", delivered, data,
                                           \E k \in DOMAIN loads : ~loads[k].settled))
         /\ Finish(IF r.threw THEN ErrorReply(FALSE, NoError, GenericError) ELSE r.message)
  /\ pending' = pending \ {ChatRequest(Len(messages), "getAllBookings")}
  /\ UNCHANGED <<chatVariant, welcomeMessageShown, inputValue, lastSend, netCount,
                 isDrawerOpen, loads>>
  /\ UNCHANGED <<statusVars, apiVars>>

\* the messages the older component appends for a result: the result itself,
\* then one message per booking
LegacyReplies(result) ==
  LET bookings == Field(result, "bookings", Arr(<<>>)).items
  IN  <<SystemMessage(result.intent, Field(result, "message", Str(<<>>)).s, bookings,
                      determineMessageType(result.intent))>>
      \o [i \in DOMAIN bookings |->
            SystemMessage("booking_info", <<BookingLine(bookings[i].id, bookings[i].start_time)>>,
                          <<>>, "info")]

\* the ids of the older component: Date.now() + 1 for the reply, + 2 for
\* each booking message, + 4 for the error message
LegacyOffset(caught, i) == IF caught THEN 4 ELSE IF i = 1 THEN 1 ELSE 2

\* the older component: processCommand settled
CommandSettlesLegacy(res) ==
  /\ chatVariant = "legacy" /\ sendPc = "awaitCommand"
  /\ LET o == processCommand(res)
         caught == o.kind = "threw" \/ o.value.t # "object" \/ "intent" \notin DOMAIN o.value
         appended ==
           IF o.kind = "threw"
           THEN <<ErrorReply(o.error.name = "BookingApiError", o.error, GenericErrorLegacy)>>
           ELSE IF caught THEN <<ErrorReply(FALSE, NoError, GenericErrorLegacy)>>
           ELSE LegacyReplies(o.value)
     IN  /\ \E now \in DateNow(0) :
              /\ messages' = messages \o appended
              /\ stamps' = stamps \o [i \in DOMAIN appended |->
                                        Stamp(now + LegacyOffset(caught, i), now)]
         /\ isLoading' = FALSE
         /\ sendPc' = "idle"
         /\ cmdResult' = Undefined
  /\ pending' = pending \ {ChatRequest(Len(messages), "processCommand")}
  /\ UNCHANGED <<chatVariant, welcomeMessageShown, inputValue, lastSend, netCount,
                 analysisData, appLoading, isDrawerOpen, loads, completed>>
  /\ UNCHANGED <<statusVars, apiVars>>

\* the component is mounted and its mount effect has added the welcome message
InitChat ==
  /\ chatVariant \in {"current", "legacy"}
  /\ welcomeMessageShown = TRUE
  /\ messages = <<WelcomeMessage>> /\ stamps = <<Stamp(0, 0)>>
  /\ inputValue = <<>> /\ isLoading = FALSE /\ sendPc = "idle"
  /\ cmdResult = Undefined /\ lastSend = NoSend /\ netCount = 0
  /\ analysisData = NoData /\ appLoading = TRUE
  /\ isDrawerOpen = FALSE /\ loads = <<>> /\ pending = {} /\ completed = <<>>
  /\ StatusRest /\ ApiRest

NextChat ==
  \/ \E text \in Inputs : TypeInput(text)
  \/ handleSend
  \/ handleSendLegacy
  \/ \E res \in ChatCommandResponses : CommandSettles(res)
  \/ \E res \in ChatListResponses : AnalyticsSettles(res)
  \/ \E res \in ChatCommandResponses : CommandSettlesLegacy(res)

SpecChat == InitChat /\ [][NextChat]_vars

\* the chat with one text to type
NextChatOneText ==
  \/ TypeInput(<<"a">>)
  \/ handleSend
  \/ handleSendLegacy
  \/ \E res \in ChatCommandResponses : CommandSettles(res)
  \/ \E res \in ChatListResponses : AnalyticsSettles(res)
  \/ \E res \in ChatCommandResponses : CommandSettlesLegacy(res)

\* every request settles: the client gives each one 10 seconds (timeout:
\* 10_000), after which axios rejects it
SpecChatLive ==
  /\ InitChat /\ [][NextChatOneText]_vars
  /\ WF_vars(\E res \in ChatCommandResponses : CommandSettles(res))
  /\ WF_vars(\E res \in ChatListResponses : AnalyticsSettles(res))
  /\ WF_vars(\E res \in ChatCommandResponses : CommandSettlesLegacy(res))

\* ---- mounting the component
WelcomeEffectUnguarded ==
  /\ addMessage(WelcomeMessage, 0, 0)
  /\ welcomeMessageShown' = TRUE
  /\ UNCHANGED <<chatVariant, inputValue, isLoading, sendPc, cmdResult, lastSend, netCount,
                 analysisData, appLoading, appVars>>
  /\ UNCHANGED <<statusVars, apiVars>>

\* the effect that adds the welcome message: it runs after the mount, and
\* again whenever React re-runs it
WelcomeEffect ==
  /\ IF ~welcomeMessageShown
     THEN /\ addMessage(WelcomeMessage, 0, 0)
          /\ welcomeMessageShown' = TRUE
     ELSE UNCHANGED <<messages, stamps, welcomeMessageShown>>
  /\ UNCHANGED <<chatVariant, inputValue, isLoading, sendPc, cmdResult, lastSend, netCount,
                 analysisData, appLoading, appVars>>
  /\ UNCHANGED <<statusVars, apiVars>>

\* the initialMessages prop: none, or a message kept from an earlier session
InitialMessages == {<<>>, <<UserMessage(<<"a">>)>>}

\* a mount of the component with its page, in the millisecond 0: fresh state
\* and a fresh ref (a component that is answering a command is not unmounted
\* here)
Mount(initialMessages) ==
  /\ sendPc = "idle"
  /\ messages' = initialMessages
  /\ stamps' = [i \in DOMAIN initialMessages |-> Stamp(0 - i, 0 - i)]
  /\ welcomeMessageShown' = FALSE
  /\ inputValue' = <<>> /\ isLoading' = FALSE /\ lastSend' = NoSend /\ netCount' = 0
  /\ analysisData' = NoData /\ appLoading' = TRUE /\ completed' = <<>>
  /\ UNCHANGED <<chatVariant, sendPc, cmdResult, isDrawerOpen, loads, pending>>
  /\ UNCHANGED <<statusVars, apiVars>>

\* the component has rendered for the first time, its effects have not run
InitMount ==
  /\ chatVariant \in {"current", "legacy"}
  /\ welcomeMessageShown = FALSE
  /\ messages \in InitialMessages
  /\ stamps = [i \in DOMAIN messages |-> Stamp(0 - i, 0 - i)]
  /\ inputValue = <<>> /\ isLoading = FALSE /\ sendPc = "idle"
  /\ cmdResult = Undefined /\ lastSend = NoSend /\ netCount = 0
  /\ analysisData = NoData /\ appLoading = TRUE
  /\ isDrawerOpen = FALSE /\ loads = <<>> /\ pending = {} /\ completed = <<>>
  /\ StatusRest /\ ApiRest

NextMount ==
  \/ WelcomeEffect
  \/ \E initialMessages \in InitialMessages : Mount(initialMessages)
  \/ NextChatOneText

SpecMount == InitMount /\ [][NextMount]_vars

(***************************************************************************)
(* Claims about the chat component, checked under SpecChat.                *)
(***************************************************************************)
\* C8: a submit of an empty or whitespace-only input dispatches no request
\* and leaves the transcript, the input value and the loading flag as they
\* were (both copies of handleSend).
C8_BlankSubmitIsInert ==
  [][ ((handleSend \/ handleSendLegacy) /\ Trim(inputValue) = <<>>)
        => UNCHANGED <<messages, inputValue, isLoading, netCount, sendPc>> ]_vars

\* C8 witness: handleSend ran on a whitespace-only input after an earlier
\* command had been answered, and returned early.
C8_Witness ==
  /\ lastSend.called /\ ~lastSend.accepted
  /\ inputValue = <<" ", "\n">>
  /\ Len(messages) = 3 /\ ~isLoading /\ netCount > 0

(***************************************************************************)
(* App: the analytics drawer, its effect, and the chat it hosts.           *)
(***************************************************************************)
\* one input of Promise.all
Waiting == [state |-> "pending", value |-> Undefined]

Got(v) == [state |-> "fulfilled", value |-> v]

Failed == [state |-> "rejected", value |-> Undefined]

\* Promise.all([getAllBookings(), processCommand('analyze bookings')])
NewLoad == [bookings |-> Waiting, nlp |-> Waiting, settled |-> FALSE]

\* a request of the k-th load the drawer effect started
DrawerRequest(k, op) == [owner |-> "drawer", n |-> k, op |-> op]

DrawerEffectIgnoresData(open) ==
  IF open
  THEN /\ Len(loads) < MaxLoads
       /\ appLoading' = TRUE
       /\ loads' = Append(loads, NewLoad)
       /\ pending' = pending \cup {DrawerRequest(Len(loads) + 1, op) :
                                     op \in {"getAllBookings", "processCommand"}}
  ELSE UNCHANGED <<appLoading, loads, pending>>

\* App's effect, run after a render in which isDrawerOpen became `open`
DrawerEffect(open) ==
  IF open /\ ~analysisData.loaded
  THEN /\ Len(loads) < MaxLoads
       /\ appLoading' = TRUE
       /\ loads' = Append(loads, NewLoad)
       /\ pending' = pending \cup {DrawerRequest(Len(loads) + 1, op) :
                                     op \in {"getAllBookings", "processCommand"}}
  ELSE UNCHANGED <<appLoading, loads, pending>>

\* the Fab's onClick and the Drawer's onClose
ToggleDrawer ==
  /\ isDrawerOpen' = ~isDrawerOpen
  /\ DrawerEffect(~isDrawerOpen)
  /\ UNCHANGED <<chatVariant, welcomeMessageShown, messages, stamps, inputValue, isLoading,
                 sendPc, cmdResult, lastSend, netCount, analysisData, completed>>
  /\ UNCHANGED <<statusVars, apiVars>>

\* one request of the k-th load settles: Promise.all rejects with the first
\* rejection and fulfils when both inputs are fulfilled; then and catch of
\* the effect run at that moment.  A settled Promise.all ignores what its
\* inputs do later, so the model keeps nothing of them.
DrawerRequestSettles(k, op, res) ==
  /\ DrawerRequest(k, op) \in pending
  /\ pending' = pending \ {DrawerRequest(k, op)}
  /\ LET o     == IF op = "getAllBookings" THEN getAllBookings(res) ELSE processCommand(res)
         slot  == IF op = "getAllBookings" THEN "bookings" ELSE "nlp"
         after == [loads[k] EXCEPT ![slot] = IF o.kind = "threw" THEN Failed
                                              ELSE Got(o.value)]
         all   == after.bookings.state = "fulfilled" /\ after.nlp.state = "fulfilled"
         done  == [bookings |-> Waiting, nlp |-> Waiting, settled |-> TRUE]
     IN  IF loads[k].settled
         THEN /\ loads' = [loads EXCEPT ![k] = done]
              /\ UNCHANGED <<analysisData, appLoading, completed>>
         ELSE IF o.kind = "returned" /\ ~all
         THEN /\ loads' = [loads EXCEPT ![k] = after]
              /\ UNCHANGED <<analysisData, appLoading, completed>>
         ELSE LET delivered == all /\ after.nlp.value.t \notin {"undefined", "null"}
                  data == AnalyticsData(after.bookings.value, after.nlp.value)
              IN  /\ loads' = [loads EXCEPT ![k] = done]
                  /\ appLoading' = FALSE
                  /\ analysisData' = IF delivered
                                     THEN handleAnalysisUpdate(analysisData, data)
                                     ELSE analysisData
                  /\ completed' = Append(completed,
                                         Completion("drawer", delivered, data,
                                                    sendPc = "awaitAnalytics"))
  /\ UNCHANGED <<chatVariant, welcomeMessageShown, messages, stamps, inputValue, isLoading,
                 sendPc, cmdResult, lastSend, netCount, isDrawerOpen>>
  /\ UNCHANGED <<statusVars, apiVars>>

\* what the service answers to 'analyze bookings' and to the chat's command
Analysis(text) ==
  [t |-> "object", intent |-> "analysis", message |-> Str(<<TextLine("done")>>),
   analysis |-> Arr(<<Str(<<text>>)>>)]

AppCommandResponses ==
  {TimedOut, Fulfilled(Analysis("x")),
   Fulfilled(ChatResult("list_bookings", <<TextLine("none")>>)), Fulfilled(Null)}

\* what the service answers to the list requests of App and of its chat
AppListResponses ==
  {NetworkError, Fulfilled(Arr(<<ServedBooking("1", IsoString(1))>>))}

\* App is mounted with the drawer closed and hosts the current ChatInterface
InitApp ==
  /\ chatVariant = "current"
  /\ InitChat

NextApp ==
  \/ TypeInput(<<"a">>)
  \/ handleSend
  \/ \E res \in AppCommandResponses : CommandSettles(res)
  \/ \E res \in AppListResponses : AnalyticsSettles(res)
  \/ ToggleDrawer
  \/ \E k \in 1..MaxLoads, res \in AppListResponses :
       DrawerRequestSettles(k, "getAllBookings", res)
  \/ \E k \in 1..MaxLoads, res \in AppCommandResponses :
       DrawerRequestSettles(k, "processCommand", res)
  \/ ToggleTheme

SpecApp == InitApp /\ [][NextApp]_vars

(***************************************************************************)
(* Claims about App, checked under SpecApp.                                *)
(***************************************************************************)
\* the requests outstanding for one user action
OutstandingOf(owner, n) == {r \in pending : r.owner = owner /\ r.n = n}

UserActions == {<<r.owner, r.n>> : r \in pending}

\* C13 as stated: every user action (a chat submit, a theme toggle, an
\* opening of the drawer) has at most one request outstanding at any time.
C13_OneOutstanding_Original ==
  \A a \in UserActions : Cardinality(OutstandingOf(a[1], a[2])) <= 1

\* C13: a chat submit has at most one request outstanding at any time, a
\* theme toggle has none, and only an opening of the drawer has more: its two
\* requests, the booking list and the analysis command.
C13_OneOutstanding ==
  /\ \A a \in UserActions :
       Cardinality(OutstandingOf(a[1], a[2])) > 1
         => /\ a[1] = "drawer"
            /\ {r.op : r \in OutstandingOf(a[1], a[2])} = {"getAllBookings", "processCommand"}
  /\ \A r \in pending : r.owner \in {"chat", "drawer"}

\* C13 witness: a submit is waiting for its analytics refresh, its command
\* settled, while an opening of the drawer has both its requests outstanding.
C13_Witness ==
  /\ sendPc = "awaitAnalytics"
  /\ OutstandingOf("chat", 2) = {ChatRequest(2, "getAllBookings")}
  /\ Cardinality(OutstandingOf("drawer", 1)) = 2
  /\ themeMode = "dark"

\* the data of the last completed load that delivered any
RECURSIVE LastDelivered(_)
LastDelivered(done) ==
  IF done = <<>> THEN NoData
  ELSE IF done[Len(done)].delivered THEN done[Len(done)].data
  ELSE LastDelivered(SubSeq(done, 1, Len(done) - 1))

\* C14: App's analytics state is what the load that completed last
\* delivered, whatever the order in which the drawer's load and the chat's
\* refresh complete (a load that fails delivers nothing and leaves the state).
C14_LastWriterWins ==
  analysisData = LastDelivered(completed)

\* C14 witness: the drawer's load and the chat's refresh were in flight
\* together, both delivered, with different data, and the state is the
\* later one's.
C14_Witness ==
  /\ Len(completed) = 2
  /\ completed[1].overlapped /\ completed[1].delivered /\ completed[2].delivered
  /\ completed[1].owner = "drawer" /\ completed[2].owner = "chat"
  /\ completed[1].data # completed[2].data
  /\ analysisData = completed[2].data

\* the requests of the drawer's loads that are outstanding
DrawerRequests == {r \in pending : r.owner = "drawer"}

\* C29: the drawer's load starts only in a step that leaves the drawer open
\* while no analytics data is held; once data is held, whoever set it,
\* opening or closing the drawer dispatches no request; and the step in
\* which a load finishes, by success or by failure, leaves App's loading flag
\* false.
C29_DrawerLoad ==
  [][/\ (Len(loads') > Len(loads) \/ ~(DrawerRequests' \subseteq DrawerRequests))
          => (isDrawerOpen' /\ ~isDrawerOpen /\ ~analysisData.loaded)
     /\ (analysisData.loaded /\ isDrawerOpen' # isDrawerOpen)
          => (pending' = pending /\ loads' = loads /\ netCount' = netCount)
     /\ \A k \in DOMAIN loads :
          (~loads[k].settled /\ loads'[k].settled) => ~appLoading']_vars

\* C29 witness: the drawer's load failed and left the loading flag false,
\* a chat refresh set the data afterwards, and the drawer, closed and opened
\* again since, is open with nothing dispatched.
C29_Witness ==
  /\ Len(completed) = 2
  /\ completed[1].owner = "drawer" /\ ~completed[1].delivered
  /\ completed[2].owner = "chat" /\ completed[2].delivered
  /\ analysisData.loaded /\ ~appLoading
  /\ isDrawerOpen /\ sendPc = "idle" /\ pending = {} /\ Len(loads) = 1

(***************************************************************************)
(* BookingList: the list view of the older App.                            *)
(***************************************************************************)
\* what is typed into the search field
Queries == {<<>>, <<"a">>, <<"Z">>, <<"z", "z">>}

\* the customer, technician and profession of the bookings the service lists
People ==
  { [customer_name |-> Str(<<"A", "l">>), technician_name |-> Str(<<"B", "o">>),
     profession |-> Str(<<"v", "e", "t">>)],
    [customer_name |-> Str(<<"E", "d">>), technician_name |-> Str(<<"Z", "o", "e">>),
     profession |-> Str(<<"v", "e", "t">>)] }

\* a booking as the Booking interface declares it, all six fields
ListedBooking(b, who) ==
  [t |-> "object", id |-> b.id,
   customer_name |-> who.customer_name, technician_name |-> who.technician_name,
   profession |-> who.profession,
   start_time |-> b.start_time, end_time |-> b.end_time]

\* the characters of a timestamp: its digits, and the letters and signs of
\* its format
TimeText(s) ==
  CASE s.fmt = "iso"    -> <<ToString(s.v), "T", "Z">>
    [] s.fmt = "offset" -> <<ToString(s.v), "T", "+", ToString(s.off)>>
    [] OTHER            -> <<ToString(s.v), "/">>

\* Object.values(booking), each as String(value)
ObjectValues(b) ==
  { <<b.id>>, b.customer_name.s, b.technician_name.s, b.profession.s,
    TimeText(b.start_time), TimeText(b.end_time) }

LowerOf(c) ==
  CASE c = "A" -> "a" [] c = "B" -> "b" [] c = "E" -> "e"
    [] c = "T" -> "t" [] c = "Z" -> "z" [] OTHER -> c

toLowerCase(s) == [i \in DOMAIN s |-> LowerOf(s[i])]

\* String.prototype.includes
includes(s, part) ==
  \E i \in 0..(Len(s) - Len(part)) : SubSeq(s, i + 1, i + Len(part)) = part

\* String(value).toLowerCase().includes(searchQuery.toLowerCase())
ValueIncludes(value, query) == includes(toLowerCase(value), toLowerCase(query))

\* the predicate of the filter effect: some value of the booking includes
\* the query
MatchesQuery(b, query) ==
  \E value \in ObjectValues(b) : ValueIncludes(value, query)

\* bookings.filter(...)
FilterBookings(items, query) == SelectSeq(items, LAMBDA b : MatchesQuery(b, query))

\* the hooks one render of BookingList calls: seven useState, useTheme and
\* two useEffect, and useMemo after the early return for an error
HooksCalled(error) == IF error # Null THEN 10 ELSE 11

\* what a render returns
ViewOf(error, loading, filtered) ==
  IF error # Null THEN "alert"
  ELSE IF loading THEN "skeleton"
  ELSE IF filtered = <<>> THEN "empty"
  ELSE "table"

\* one render after a state change: React throws when a render calls another
\* number of hooks than the one before, and without an error boundary the
\* tree is unmounted
RenderList(error, loading, filtered) ==
  IF HooksCalled(error) # listHooks
  THEN /\ listView' = "crashed"
       /\ UNCHANGED listHooks
  ELSE /\ listView' = ViewOf(error, loading, filtered)
       /\ listHooks' = HooksCalled(error)

\* the first lines of fetchBookings, up to the await
fetchBookings ==
  /\ listLoading' = TRUE
  /\ listError' = Null
  /\ listPending' = listPending + 1
  /\ RenderList(Null, TRUE, listFiltered)
  /\ UNCHANGED <<listBookings, listFiltered, searchQuery>>

\* the refresh control: in the header it is disabled while loading, in the
\* alert it is always enabled
handleRefresh ==
  /\ \/ listView \in {"table", "empty"} /\ ~listLoading
     \/ listView = "alert"
  /\ fetchBookings
  /\ UNCHANGED <<clock, booking, themeMode, entry, memo, chip>>
  /\ UNCHANGED <<apiVars, chatVars>>

\* the search field's onChange, and the filter effect that follows
TypeSearch(query) ==
  /\ listView \in {"skeleton", "table", "empty"}
  /\ query # searchQuery
  /\ searchQuery' = query
  /\ listFiltered' = FilterBookings(listBookings, query)
  /\ RenderList(listError, listLoading, FilterBookings(listBookings, query))
  /\ UNCHANGED <<listBookings, listLoading, listError, listPending>>
  /\ UNCHANGED <<clock, booking, themeMode, entry, memo, chip>>
  /\ UNCHANGED <<apiVars, chatVars>>

FetchSettlesDropsList(res) ==
  /\ listPending > 0
  /\ listPending' = listPending - 1
  /\ LET o == getAllBookings(res)
     IN  IF listView = "crashed"
         THEN UNCHANGED <<listBookings, listFiltered, listLoading, listError, searchQuery,
                          listHooks, listView>>
         ELSE IF o.kind = "returned"
         THEN /\ listBookings' = o.value.items
              /\ listFiltered' = FilterBookings(o.value.items, searchQuery)
              /\ listLoading' = FALSE
              /\ RenderList(listError, FALSE, FilterBookings(o.value.items, searchQuery))
              /\ UNCHANGED <<listError, searchQuery>>
         ELSE /\ listError' =
                   IF o.error.name = "BookingApiError"
                   THEN Str(<<"Failed to fetch bookings: ">> \o o.error.message)
                   ELSE Str(<<"An unexpected error occurred while fetching bookings">>)
              /\ listLoading' = FALSE
              /\ listBookings' = <<>>
              /\ RenderList(listError', FALSE, listFiltered)
              /\ UNCHANGED <<listFiltered, searchQuery>>
  /\ UNCHANGED <<clock, booking, themeMode, entry, memo, chip>>
  /\ UNCHANGED <<apiVars, chatVars>>

\* getAllBookings settled: the rest of fetchBookings (try, catch, finally),
\* the filter effect and the render; a component that is no longer mounted
\* keeps nothing of it
FetchSettles(res) ==
  /\ listPending > 0
  /\ listPending' = listPending - 1
  /\ LET o == getAllBookings(res)
     IN  IF listView = "crashed"
         THEN UNCHANGED <<listBookings, listFiltered, listLoading, listError, searchQuery,
                          listHooks, listView>>
         ELSE IF o.kind = "returned"
         THEN /\ listBookings' = o.value.items
              /\ listFiltered' = FilterBookings(o.value.items, searchQuery)
              /\ listLoading' = FALSE
              /\ RenderList(listError, FALSE, FilterBookings(o.value.items, searchQuery))
              /\ UNCHANGED <<listError, searchQuery>>
         ELSE /\ listError' =
                   IF o.error.name = "BookingApiError"
                   THEN Str(<<"Failed to fetch bookings: ">> \o o.error.message)
                   ELSE Str(<<"An unexpected error occurred while fetching bookings">>)
              /\ listLoading' = FALSE
              /\ RenderList(listError', FALSE, listFiltered)
              /\ UNCHANGED <<listBookings, listFiltered, searchQuery>>
  /\ UNCHANGED <<clock, booking, themeMode, entry, memo, chip>>
  /\ UNCHANGED <<apiVars, chatVars>>

\* the lists the service sends to the list view: bookings 1..n, all
\* timestamps of one response in one format, each booking with its people
ListedLists ==
  UNION { { [i \in 1..n |-> ListedBooking(ServedBooking(ToString(i), Written(i - 1, f)), who[i])] :
              f \in Formats, who \in [1..n -> People] } : n \in 0..MaxList }

ListResponses ==
  {NetworkError, TimedOut, RejectedWith(500, Str(<<"Internal Server Error">>))}
  \cup {Fulfilled(Arr(l)) : l \in ListedLists}

\* BookingList is mounted: its first render, and the mount effect has called
\* fetchBookings
InitList ==
  /\ listBookings = <<>> /\ listFiltered = <<>> /\ listLoading = TRUE
  /\ listError = Null /\ searchQuery = <<>> /\ listPending = 1
  /\ listHooks = HooksCalled(Null) /\ listView = "skeleton"
  /\ clock = 0 /\ themeMode = "light"
  /\ booking = [start_time |-> IsoString(0), end_time |-> IsoString(0)]
  /\ entry = NotRendered /\ memo = NotRendered /\ chip = NotRendered
  /\ ApiRest /\ ChatRest

NextList ==
  \/ \E res \in ListResponses : FetchSettles(res)
  \/ handleRefresh
  \/ \E query \in Queries : TypeSearch(query)

SpecList == InitList /\ [][NextList]_vars

(***************************************************************************)
(* Claims about BookingList, checked under SpecList.                       *)
(***************************************************************************)
\* C16: whenever a fetch of the booking list has failed, the list shows the
\* error alert (the message with the refresh control) and is still mounted.
C16_ErrorShownWithRetry ==
  listError # Null => listView = "alert"

\* the bookings whose customer name, technician name or profession contains
\* the query, case-insensitively, in their original order
NameMatches(b, query) ==
  \E value \in {b.customer_name.s, b.technician_name.s, b.profession.s} :
     includes(toLowerCase(value), toLowerCase(query))

\* C21: the list shows exactly the bookings whose customer name, technician
\* name or profession contains the query (case-insensitively), in their
\* original order; an empty query shows all bookings.
C21_SearchByNames ==
  listView \in {"table", "empty"} =>
    /\ listFiltered = SelectSeq(listBookings, LAMBDA b : NameMatches(b, searchQuery))
    /\ searchQuery = <<>> => listFiltered = listBookings

\* C30: a fetch of the booking list clears the error and sets the loading
\* flag when it starts, and ends with the loading flag false; a failed fetch
\* sets the error message and leaves the bookings loaded before as they
\* were, and a successful fetch replaces the bookings by the response's and
\* leaves the error cleared.
C30_FetchFrame ==
  [][/\ (listPending' > listPending)
          => (listError' = Null /\ listLoading' /\ listBookings' = listBookings)
     /\ \A res \in ListResponses :
          (FetchSettles(res) /\ listView # "crashed") =>
             /\ ~listLoading'
             /\ IF res.kind = "fulfilled"
                THEN listBookings' = res.data.items /\ listError' = Null
                ELSE /\ listBookings' = listBookings
                     /\ listError' # Null
                     /\ Head(listError'.s) = "Failed to fetch bookings: "]_vars

\* C30 witness: a refresh of a loaded list failed: the error message is
\* set, the loading flag is false and the bookings loaded before are kept.
C30_Witness ==
  /\ listBookings # <<>> /\ listError # Null /\ ~listLoading /\ listPending = 0

(***************************************************************************)
(* Claims about the replies of the chat, checked under SpecChat.           *)
(***************************************************************************)
\* what the SystemMessage component shows of a transcript entry: the cards
\* of its bookings under a fixed heading when the intent is booking_info and
\* there are bookings, the lines of its message otherwise
Shown(msg) ==
  IF msg.intent = "booking_info" /\ msg.bookings # <<>>
  THEN [text |-> <<TextLine("Booking Details")>>, bookings |-> msg.bookings]
  ELSE [text |-> msg.message, bookings |-> <<>>]

ServerMessage == Field(cmdResult, "message", Str(<<>>)).s

ServerBookings == Field(cmdResult, "bookings", Arr(<<>>)).items

\* this step appends the reply to a command result that has an intent and a
\* message
Replies ==
  /\ chatVariant = "current" /\ sendPc = "awaitAnalytics" /\ sendPc' = "idle"
  /\ cmdResult.t = "object" /\ {"intent", "message"} \subseteq DOMAIN cmdResult

\* the result the chat rebuilds: intent list_bookings with booking lines in
\* the message
ListCase ==
  /\ cmdResult.intent = "list_bookings"
  /\ \E i \in DOMAIN ServerMessage : LineIncludesId(ServerMessage[i])

\* C18 as stated: the text and the bookings shown for a reply are those of
\* the server's result, whatever its intent.
C18_IntentOnlyStyles_Original ==
  [][Replies =>
       LET reply == messages'[Len(messages')]
       IN  /\ reply.message = ServerMessage /\ reply.bookings = ServerBookings
           /\ Shown(reply).text = ServerMessage
           /\ ServerBookings # <<>> => Shown(reply).bookings = ServerBookings]_vars

\* C18: unless the result has intent list_bookings and booking lines in its
\* message, the reply keeps the intent, the text and the bookings of the
\* server's result and the intent selects the style; of such a reply the
\* text is shown, except that for intent booking_info with bookings the
\* cards of these bookings are shown instead.  For list_bookings with booking
\* lines the reply is rebuilt (intent booking_info, or an error reply).
C18_IntentOnlyStyles ==
  [][Replies =>
       LET reply == messages'[Len(messages')]
       IN  IF ListCase
           THEN reply.intent \in {"booking_info", "error"} /\ reply.message # ServerMessage
           ELSE /\ reply.intent = cmdResult.intent
                /\ reply.message = ServerMessage /\ reply.bookings = ServerBookings
                /\ reply.type = determineMessageType(cmdResult.intent)
                /\ Shown(reply) =
                     IF cmdResult.intent = "booking_info" /\ ServerBookings # <<>>
                     THEN [text |-> <<TextLine("Booking Details")>>,
                           bookings |-> ServerBookings]
                     ELSE [text |-> ServerMessage, bookings |-> <<>>]]_vars

\* C18 witness: the reply to a result with intent booking_success, a text
\* and a booking is in the transcript with that text and that booking, styled
\* as success.
C18_Witness ==
  /\ chatVariant = "current" /\ sendPc = "idle" /\ Len(messages) = 3
  /\ messages[3] = SystemMessage("booking_success", <<TextLine("booked")>>,
                                 <<ServedBooking("1", IsoString(1))>>, "success")

(***************************************************************************)
(* Claims about the transcript.                                            *)
(***************************************************************************)
\* the welcome messages of the transcript
Welcomes == {i \in DOMAIN messages : messages[i] = WelcomeMessage}

\* C22 (SpecMount): once the mount effect has run, and after any further
\* mount or re-run of the effect, the transcript holds the welcome message
\* exactly once, whatever initial messages it was mounted with; before the
\* effect has run it holds none.
C22_WelcomeOnce ==
  Cardinality(Welcomes) = IF welcomeMessageShown THEN 1 ELSE 0

\* C22 witness: the component was mounted with an initial message and the
\* effect added the welcome message after it.
C22_Witness ==
  /\ welcomeMessageShown /\ Len(messages) = 2
  /\ messages[1] = UserMessage(<<"a">>) /\ messages[2] = WelcomeMessage
  /\ Welcomes = {2}

C24_LoadingClears ==
  /\ [](sendPc = "idle" => ~isLoading)
  /\ (isLoading ~> ~isLoading)

\* C24 witness: a command succeeded, the analytics refresh after it failed
\* (App holds no data), the reply is in the transcript and the flag is false.
C24_Witness ==
  /\ chatVariant = "current" /\ sendPc = "idle" /\ ~isLoading
  /\ netCount = 2 /\ analysisData = NoData
  /\ Len(messages) = 3 /\ messages[3].intent = "booking_success"

\* the submit-command requests of the chat that are in flight
CommandsInFlight == {r \in pending : r.owner = "chat" /\ r.op = "processCommand"}

\* C25: the chat has at most one submit-command request in flight at any
\* time, and a submit attempted while a command is still loading dispatches
\* no request and appends no message.
C25_OneCommandInFlight ==
  /\ [][((handleSend \/ handleSendLegacy) /\ isLoading)
          => UNCHANGED <<messages, stamps, netCount, pending, sendPc>>]_vars
  /\ [](Cardinality(CommandsInFlight) <= 1)

\* C25 witness: while a command was in flight, text was typed and handleSend
\* ran on it and returned early.
C25_Witness ==
  /\ isLoading /\ sendPc = "awaitCommand" /\ Cardinality(CommandsInFlight) = 1
  /\ Trim(inputValue) # <<>>
  /\ lastSend.called /\ ~lastSend.accepted

\* the reply index.tsx appends for the command result it holds, whatever
\* became of the analytics refresh
ReplyFor(result) ==
  IF Reply(result).threw THEN ErrorReply(FALSE, NoError, GenericError)
  ELSE Reply(result).message

\* C26: the transcript of index.tsx is append-only and ordered per
\* submission: a step leaves it alone, or an accepted submit appends the
\* user's trimmed message, or the end of that submission appends exactly one
\* system message after it (the reply or one error message); when the
\* analytics refresh ends, by success or by failure, the message appended is
\* the reply to the command's result.
C26_AppendOnly ==
  [][chatVariant = "current" =>
       \/ messages' = messages
       \/ /\ sendPc = "idle" /\ sendPc' = "awaitCommand"
          /\ messages' = Append(messages, UserMessage(Trim(inputValue)))
       \/ /\ sendPc # "idle" /\ sendPc' = "idle"
          /\ messages[Len(messages)].role = "user"
          /\ Len(messages') = Len(messages) + 1
          /\ SubSeq(messages', 1, Len(messages)) = messages
          /\ messages'[Len(messages')].role = "system"
          /\ sendPc = "awaitAnalytics" => messages'[Len(messages')] = ReplyFor(cmdResult)
          /\ sendPc = "awaitCommand" => messages'[Len(messages')].intent = "error"]_vars

\* C26 witness: a command typed with surrounding whitespace succeeded, the
\* analytics refresh after it failed, and the transcript ends with the
\* trimmed message and the command's reply.
C26_Witness ==
  /\ chatVariant = "current" /\ sendPc = "idle" /\ Len(messages) = 3
  /\ netCount = 2 /\ analysisData = NoData
  /\ messages[1] = WelcomeMessage
  /\ messages[2] = UserMessage(<<"a">>)
  /\ messages[3].role = "system" /\ messages[3].intent = "slot_warning"

\* C27: all messages of the transcript have pairwise distinct ids, after
\* any sequence of submissions and replies, including a reply that carries
\* several bookings.
C27_DistinctIds ==
  \A i, j \in DOMAIN stamps : i # j => stamps[i].id # stamps[j].id

\* the text after the prefix "API request failed: " of an error message
\* that starts with it
Detail(message) ==
  IF message # <<>> /\ Head(message) = ApiRequestFailed THEN Tail(message) ELSE message

\* the one error message the claim expects for a failure
ExpectedError(isApiError, error, generic) ==
  [role |-> "system", content |-> <<>>, intent |-> "error", bookings |-> <<>>,
   type |-> "error",
   message |-> IF isApiError THEN [i \in DOMAIN Detail(error.message) |->
                                     TextLine(Detail(error.message)[i])]
               ELSE <<TextLine(generic)>>]

\* C28: when a chat command fails, exactly one system message of type error
\* with intent "error" is appended: its text is the error's detail, the
\* message without the prefix "API request failed: ", if the failure is a
\* BookingApiError, and a fixed generic text otherwise (a result the reply
\* cannot be built from).
C28_OneErrorMessage ==
  [][/\ \A res \in ChatCommandResponses :
          LET o == processCommand(res)
          IN  /\ (CommandSettles(res) /\ o.kind = "threw")
                   => messages' = Append(messages, ExpectedError(TRUE, o.error, GenericError))
              /\ (CommandSettlesLegacy(res) /\ o.kind = "threw")
                   => messages' = Append(messages,
                                         ExpectedError(TRUE, o.error, GenericErrorLegacy))
     /\ (sendPc = "awaitAnalytics" /\ sendPc' = "idle" /\ Reply(cmdResult).threw)
          => messages' = Append(messages, ExpectedError(FALSE, NoError, GenericError))]_vars

\* C28 witness: a command was answered with 404 and a detail, and the
\* transcript ends with one error message whose text is that detail.
C28_Witness ==
  /\ sendPc = "idle" /\ Len(messages) = 3 /\ netCount = 1
  /\ messages[2].role = "user"
  /\ messages[3].intent = "error" /\ messages[3].type = "error"
  /\ messages[3].message = <<TextLine("Booking not found")>>

====
